---- MODULE Spec2Model ----
(***************************************************************************)
(* The GRPO training loop of src/pilot/train.py (train_grpo_llama and      *)
(* generate_text) as a state machine.                                      *)
(*                                                                         *)
(* Abstractions                                                            *)
(*  - A weight state is a version number: the number of in-place changes   *)
(*    the policy adapter parameters have received.  optimizer.step()       *)
(*    (Adam) changes the parameters in place whenever the gradient or the  *)
(*    first-moment estimate is non-zero.                                   *)
(*  - A state dict returned by get_peft_model_state_dict holds the         *)
(*    parameter tensors of model.state_dict(): they share storage with the *)
(*    live parameters, train.py never clones them, so reading a state dict *)
(*    yields the parameters' CURRENT values (StateDictValue).              *)
(*  - Rewards are scaled by 2 (1.0 -> 2, -0.5 -> -1); a step's return is   *)
(*    kept as the sum over the batch (np.mean times batch_size) and the    *)
(*    group average as the sum over the group, which preserves every sign  *)
(*    and comparison the code makes.  Ratios and epsilon are in tenths.    *)
(*  - network.py (GroupBuffer, GRPONetwork, calculate_kl_divergence) is    *)
(*    not part of the sources; GroupBuffer is modelled from its            *)
(*    specification.                                                       *)
(***************************************************************************)
EXTENDS Integers, Sequences, FiniteSets, TLC

\* ---------------------------------------------------------------- constants
\* hyper-parameters fixed in train_grpo_llama / generate_text
epochs == 3
steps_per_group == 4
batch_size_train == 1
max_size == 5
max_new_tokens == 50
\* epsilon = 0.2, in tenths
epsilon == 2

\* ------------------------------------------------------------------- bounds
\* largest number of records of train_data
MaxData == 3
\* largest batch size of the generalised configuration
MaxBatch == 2
\* largest importance ratio (tenths) the update step can observe
MaxRatio == 15
\* number of add calls issued by the stand-alone buffer driver
MaxAdds == 7

VARIABLES
  batch_size,     \* configuration: records per collection step
  data_size,      \* number of records of train_data
  pc,             \* control position inside train_grpo_llama
  epoch,          \* loop variable of the epoch loop
  step,           \* collection steps completed in this epoch
  upd,            \* index i of the update loop
  gen_b,          \* index i of the generation loop over the batch
  gen_i,          \* iterations done by the running generate_text call
  dataset_iter,   \* position of dataset_iter inside train_data
  batch,          \* the batch drawn by the current collection step
  restarts,       \* iterator restarts since the start of the epoch
  grad_enabled,   \* torch's gradient mode
  grad_saved,     \* gradient modes saved by the open no_grad contexts
  policy_w,       \* policy adapter weights (version)
  adam_m,         \* Adam's first moment is non-zero
  ref_w,          \* weights held by reference_model (version)
  ref_sd,         \* binding of ref_sd: -1 = line 76, k = bound after epoch k
  accepted_w,     \* history: policy weights when ref_sd was last bound
  prev_ref_w,     \* history: reference weights used by the previous epoch
  pending,        \* policy / reference weights behind the current step's tensors
  text_gens,      \* per generated text: does it contain "correct"
  group_returns,  \* per-step returns of this epoch
  input_batches,  \* rollouts of this epoch
  advantages,     \* result of calculate_relative_advantage
  ratio,          \* importance ratio of the running update step (0 = deleted)
  surr,           \* min(surr1, surr2) of the running update step
  buffer,         \* scores of the snapshots held by group_buffer
  n_adds,         \* history: calls of group_buffer.add
  counts,         \* history: per-epoch and total operation counts
  fwd_log,        \* history: every kind of forward call made so far
  saves           \* calls of save_pretrained

vars == << batch_size, data_size, pc, epoch, step, upd, gen_b, gen_i,
           dataset_iter, batch, restarts, grad_enabled, grad_saved, policy_w,
           adam_m, ref_w, ref_sd, accepted_w, prev_ref_w, pending, text_gens,
           group_returns, input_batches, advantages, ratio, surr, buffer,
           n_adds, counts, fwd_log, saves >>

\* ------------------------------------------------------------------ helpers
RECURSIVE SumSeq(_)
SumSeq(s) == IF s = << >> THEN 0 ELSE Head(s) + SumSeq(Tail(s))

Min(a, b) == IF a <= b THEN a ELSE b
Max(a, b) == IF a >= b THEN a ELSE b

\* reward_function: 1.0 when the text contains "correct", else -0.5 (times 2)
reward_function(correct) == IF correct THEN 2 ELSE -1

\* [next(dataset_iter) for __ in range(n)]: n calls of next; StopIteration
\* as soon as the iterator is exhausted
RECURSIVE NextN(_, _, _, _)
NextN(pos, n, size, acc) ==
  IF n = 0 THEN [ok |-> TRUE, pos |-> pos, batch |-> acc]
  ELSE IF pos >= size THEN [ok |-> FALSE, pos |-> pos, batch |-> << >>]
  ELSE NextN(pos + 1, n - 1, size, Append(acc, pos))

\* the try / except StopIteration of a collection step
DrawBatchResult(pos, n, size) ==
  LET first == NextN(pos, n, size, << >>)
      again == NextN(0, n, size, << >>)
  IN IF first.ok THEN [raised |-> FALSE, restarted |-> FALSE,
                       pos |-> first.pos, batch |-> first.batch]
     ELSE IF again.ok THEN [raised |-> FALSE, restarted |-> TRUE,
                            pos |-> again.pos, batch |-> again.batch]
     ELSE [raised |-> TRUE, restarted |-> TRUE, pos |-> again.pos,
           batch |-> << >>]

\* the values read through a state dict of the policy: its tensors are the
\* live parameters
StateDictValue(sd) == policy_w

\* mutant: the no_grad context is missing
NoGradMissing(prev) == prev

\* torch.no_grad(): the mode inside the context, and the mode restored on exit
NoGradEnter(prev) == FALSE
NoGradExit(saved) == saved

\* mutant: the clamp has no upper bound
ClampLowOnly(r) == Max(10 - epsilon, r)

\* torch.clamp(ratio, 1 - epsilon, 1 + epsilon), in tenths
Clamp(r) == Max(10 - epsilon, Min(r, 10 + epsilon))

\* torch.min(surr1, surr2) for one action, advantage a, ratio r (tenths)
Surrogate(r, a) == Min(r * a, Clamp(r) * a)

\* the gradient of the surrogate with respect to the policy is non-zero when
\* the advantage is non-zero and torch.min does not select a clamped constant
GradNonZero(r, a) == a /= 0 /\ r * a <= Clamp(r) * a

\* importance ratios exp(log_probs_new - logp_old) the update can see: exactly
\* 1 when the weights are those of collection time
Ratios(w_now, w_old) ==
  IF w_now = w_old THEN {10}
  ELSE (10 - 2 * epsilon)..MaxRatio

\* GroupBuffer.calculate_relative_advantage: each return against the group
\* mean (times the group size)
calculate_relative_advantage(returns) ==
  [i \in 1..Len(returns) |-> Len(returns) * returns[i] - SumSeq(returns)]

\* GroupBuffer.add: bounded retention, the oldest snapshot leaves first
GroupBufferAdd(buf, score) ==
  IF Len(buf) < max_size THEN Append(buf, score)
  ELSE Append(Tail(buf), score)

\* mutant: the epoch loop runs once more
EpochLoopOneMore(e) == e <= epochs

\* mutant: the group lists survive the epoch
CarriedGroupList(old) == old

\* line 91-92: group_returns = [], input_batches = []
NewGroupList(old) == << >>

\* for epoch in range(epochs)
EpochLoopContinues(e) == e < epochs

ZeroCounts == [rollouts |-> 0, adv_calls |-> 0, opt_steps |-> 0, adds |-> 0]

\* -------------------------------------------------------------------- Init
InitCommon ==
  /\ data_size \in 1..MaxData
  /\ epoch = 0 /\ step = 0 /\ upd = 0 /\ gen_b = 0 /\ gen_i = 0
  /\ dataset_iter = 0
  /\ batch = << >>
  /\ restarts = 0
  /\ grad_enabled = TRUE
  /\ grad_saved = << >>
  /\ policy_w = 0
  /\ adam_m = FALSE
  /\ ref_w = -1
  /\ ref_sd = -1
  /\ accepted_w = 0
  /\ prev_ref_w = -1
  /\ pending = [pol_w |-> 0, ref_w |-> 0]
  /\ text_gens = << >>
  /\ group_returns = << >>
  /\ input_batches = << >>
  /\ advantages = << >>
  /\ ratio = 0 /\ surr = 0
  /\ buffer = << >>
  /\ n_adds = 0
  /\ counts = [epoch |-> ZeroCounts, collect |-> 0, gen |-> 0, update |-> 0]
  /\ fwd_log = {}
  /\ saves = 0

\* the state before the epoch loop, as train_grpo_llama configures it
Init ==
  /\ batch_size = batch_size_train
  /\ pc = "epoch_start"
  /\ InitCommon

\* ----------------------------------------------------------------- actions
\* lines 88-92: a new epoch; the reference model loads ref_sd, the group lists
\* are emptied
EpochStart ==
  /\ pc = "epoch_start"
  /\ EpochLoopContinues(epoch)
  /\ prev_ref_w' = ref_w
  /\ ref_w' = StateDictValue(ref_sd)
  /\ group_returns' = NewGroupList(group_returns)
  /\ input_batches' = NewGroupList(input_batches)
  /\ step' = 0
  /\ restarts' = 0
  /\ counts' = [counts EXCEPT !.epoch = ZeroCounts]
  /\ pc' = "draw"
  /\ UNCHANGED << batch_size, data_size, epoch, upd, gen_b, gen_i,
                  dataset_iter, batch, grad_enabled, grad_saved, policy_w,
                  adam_m, ref_sd, accepted_w, pending, text_gens, advantages,
                  ratio, surr, buffer, n_adds, fwd_log, saves >>

\* lines 95-99: draw the batch, restarting the iterator on StopIteration; a
\* StopIteration of the second attempt leaves train_grpo_llama
DrawBatch ==
  /\ pc = "draw"
  /\ LET r == DrawBatchResult(dataset_iter, batch_size, data_size)
     IN /\ dataset_iter' = r.pos
        /\ batch' = r.batch
        /\ restarts' = IF r.restarted THEN restarts + 1 ELSE restarts
        /\ pc' = IF r.raised THEN "raised" ELSE "forward"
  /\ UNCHANGED << batch_size, data_size, epoch, step, upd, gen_b, gen_i,
                  grad_enabled, grad_saved, policy_w, adam_m, ref_w, ref_sd,
                  accepted_w, prev_ref_w, pending, text_gens, group_returns,
                  input_batches, advantages, ratio, surr, buffer, n_adds,
                  counts, fwd_log, saves >>

\* lines 101-115: reference and policy logits inside torch.no_grad(), the
\* sampled actions and their log-probabilities
CollectForward ==
  /\ pc = "forward"
  /\ LET inside == NoGradEnter(grad_enabled)
     IN /\ fwd_log' = fwd_log \cup
                        { [phase |-> "collect", model |-> "reference", grad |-> inside],
                          [phase |-> "collect", model |-> "policy", grad |-> inside] }
        /\ grad_enabled' = NoGradExit(grad_enabled)
  /\ pending' = [pol_w |-> policy_w, ref_w |-> ref_w]
  /\ text_gens' = << >>
  /\ gen_b' = 0
  /\ pc' = "gen_call"
  /\ UNCHANGED << batch_size, data_size, epoch, step, upd, gen_i, dataset_iter,
                  batch, restarts, grad_saved, policy_w, adam_m, ref_w, ref_sd,
                  accepted_w, prev_ref_w, group_returns, input_batches,
                  advantages, ratio, surr, buffer, n_adds, counts, saves >>

\* lines 117-119 and 33-34: the with torch.no_grad() block and the decorated
\* generate_text are entered for batch element gen_b
GenerateCall ==
  /\ pc = "gen_call"
  /\ LET outer == NoGradEnter(grad_enabled)
     IN /\ grad_saved' = << grad_enabled, outer >>
        /\ grad_enabled' = NoGradEnter(outer)
  /\ gen_i' = 0
  /\ pc' = "generate"
  /\ UNCHANGED << batch_size, data_size, epoch, step, upd, gen_b, dataset_iter,
                  batch, restarts, policy_w, adam_m, ref_w, ref_sd, accepted_w,
                  prev_ref_w, pending, text_gens, group_returns, input_batches,
                  advantages, ratio, surr, buffer, n_adds, counts, fwd_log,
                  saves >>

\* lines 35-39: one iteration of generate_text: forward call, sample, append
GenerateStep ==
  /\ pc = "generate"
  /\ gen_i < max_new_tokens
  /\ fwd_log' = fwd_log \cup
                  { [phase |-> "generate", model |-> "policy", grad |-> grad_enabled] }
  /\ gen_i' = gen_i + 1
  /\ counts' = [counts EXCEPT !.gen = @ + 1]
  /\ UNCHANGED << batch_size, data_size, pc, epoch, step, upd, gen_b,
                  dataset_iter, batch, restarts, grad_enabled, grad_saved,
                  policy_w, adam_m, ref_w, ref_sd, accepted_w, prev_ref_w,
                  pending, text_gens, group_returns, input_batches, advantages,
                  ratio, surr, buffer, n_adds, saves >>

\* lines 40 and 119: generate_text returns the decoded text, both no_grad
\* contexts are left, the text joins text_gens
GenerateReturn ==
  /\ pc = "generate"
  /\ gen_i = max_new_tokens
  /\ \E correct \in BOOLEAN : text_gens' = Append(text_gens, correct)
  /\ grad_enabled' = NoGradExit(grad_saved[1])
  /\ grad_saved' = << >>
  /\ gen_b' = gen_b + 1
  /\ pc' = IF gen_b + 1 < Len(batch) THEN "gen_call" ELSE "record"
  /\ UNCHANGED << batch_size, data_size, epoch, step, upd, gen_i, dataset_iter,
                  batch, restarts, policy_w, adam_m, ref_w, ref_sd, accepted_w,
                  prev_ref_w, pending, group_returns, input_batches,
                  advantages, ratio, surr, buffer, n_adds, counts, fwd_log,
                  saves >>

\* mutant: an optimizer step is taken after every collection step
RecordOnlineStep ==
  /\ pc = "record"
  /\ LET rewards == [i \in 1..Len(text_gens) |-> reward_function(text_gens[i])]
         ret == SumSeq(rewards)
     IN /\ group_returns' = Append(group_returns, ret)
        /\ input_batches' = Append(input_batches,
                                   [ret |-> ret, pol_w |-> pending.pol_w,
                                    ref_w |-> pending.ref_w, used |-> 0])
  /\ policy_w' = policy_w + 1
  /\ step' = step + 1
  /\ counts' = [counts EXCEPT !.epoch.rollouts = @ + 1, !.collect = @ + 1]
  /\ pc' = IF step + 1 < steps_per_group THEN "draw" ELSE "advantage"
  /\ UNCHANGED << batch_size, data_size, epoch, upd, gen_b, gen_i, dataset_iter,
                  batch, restarts, grad_enabled, grad_saved, adam_m,
                  ref_w, ref_sd, accepted_w, prev_ref_w, pending, text_gens,
                  advantages, ratio, surr, buffer, n_adds, fwd_log, saves >>

\* lines 121-126 and the loop header of line 94: rewards, the step's return
\* and the rollout are recorded
Record ==
  /\ pc = "record"
  /\ LET rewards == [i \in 1..Len(text_gens) |-> reward_function(text_gens[i])]
         ret == SumSeq(rewards)
     IN /\ group_returns' = Append(group_returns, ret)
        /\ input_batches' = Append(input_batches,
                                   [ret |-> ret, pol_w |-> pending.pol_w,
                                    ref_w |-> pending.ref_w, used |-> 0])
  /\ step' = step + 1
  /\ counts' = [counts EXCEPT !.epoch.rollouts = @ + 1, !.collect = @ + 1]
  /\ pc' = IF step + 1 < steps_per_group THEN "draw" ELSE "advantage"
  /\ UNCHANGED << batch_size, data_size, epoch, upd, gen_b, gen_i, dataset_iter,
                  batch, restarts, grad_enabled, grad_saved, policy_w, adam_m,
                  ref_w, ref_sd, accepted_w, prev_ref_w, pending, text_gens,
                  advantages, ratio, surr, buffer, n_adds, fwd_log, saves >>

\* line 128
Advantage ==
  /\ pc = "advantage"
  /\ advantages' = calculate_relative_advantage(group_returns)
  /\ counts' = [counts EXCEPT !.epoch.adv_calls = @ + 1]
  /\ upd' = 0
  /\ pc' = IF Len(input_batches) > 0 THEN "update" ELSE "sync"
  /\ UNCHANGED << batch_size, data_size, epoch, step, gen_b, gen_i,
                  dataset_iter, batch, restarts, grad_enabled, grad_saved,
                  policy_w, adam_m, ref_w, ref_sd, accepted_w, prev_ref_w,
                  pending, text_gens, group_returns, input_batches, ratio,
                  surr, buffer, n_adds, fwd_log, saves >>

\* lines 130-140: rollout upd is taken from input_batches, the policy is
\* evaluated in the ambient gradient mode, ratio and clipped surrogate follow
UpdateForward ==
  /\ pc = "update"
  /\ upd < Len(input_batches)
  /\ fwd_log' = fwd_log \cup
                  { [phase |-> "update", model |-> "policy", grad |-> grad_enabled] }
  /\ \E r \in Ratios(policy_w, input_batches[upd + 1].pol_w) :
       /\ ratio' = r
       /\ surr' = Surrogate(r, advantages[upd + 1])
  /\ input_batches' = [input_batches EXCEPT ![upd + 1].used = @ + 1]
  /\ pc' = "opt"
  /\ UNCHANGED << batch_size, data_size, epoch, step, upd, gen_b, gen_i,
                  dataset_iter, batch, restarts, grad_enabled, grad_saved,
                  policy_w, adam_m, ref_w, ref_sd, accepted_w, prev_ref_w,
                  pending, text_gens, group_returns, advantages, buffer,
                  n_adds, counts, saves >>

\* mutant: the reference model follows the policy at every optimizer step
OptimizerStepSharedReference ==
  /\ pc = "opt"
  /\ LET m == adam_m \/ GradNonZero(ratio, advantages[upd + 1])
     IN /\ adam_m' = m
        /\ policy_w' = IF m THEN policy_w + 1 ELSE policy_w
  /\ ref_w' = policy_w'
  /\ ratio' = 0
  /\ surr' = 0
  /\ counts' = [counts EXCEPT !.epoch.opt_steps = @ + 1, !.update = @ + 1]
  /\ upd' = upd + 1
  /\ pc' = IF upd + 1 < Len(input_batches) THEN "update" ELSE "sync"
  /\ UNCHANGED << batch_size, data_size, epoch, step, gen_b, gen_i,
                  dataset_iter, batch, restarts, grad_enabled, grad_saved,
                  ref_sd, accepted_w, prev_ref_w, pending, text_gens,
                  group_returns, input_batches, advantages, buffer, n_adds,
                  fwd_log, saves >>

\* lines 141-145: zero_grad, backward, optimizer.step, the intermediates are
\* deleted
OptimizerStep ==
  /\ pc = "opt"
  /\ LET m == adam_m \/ GradNonZero(ratio, advantages[upd + 1])
     IN /\ adam_m' = m
        /\ policy_w' = IF m THEN policy_w + 1 ELSE policy_w
  /\ ratio' = 0
  /\ surr' = 0
  /\ counts' = [counts EXCEPT !.epoch.opt_steps = @ + 1, !.update = @ + 1]
  /\ upd' = upd + 1
  /\ pc' = IF upd + 1 < Len(input_batches) THEN "update" ELSE "sync"
  /\ UNCHANGED << batch_size, data_size, epoch, step, gen_b, gen_i,
                  dataset_iter, batch, restarts, grad_enabled, grad_saved,
                  ref_w, ref_sd, accepted_w, prev_ref_w, pending, text_gens,
                  group_returns, input_batches, advantages, buffer, n_adds,
                  fwd_log, saves >>

\* line 149: the reference anchor follows the policy
SyncCondition(group_avg) == group_avg > 0

\* mutant: only an accepted snapshot is added to the buffer
SyncAddsAcceptedOnly ==
  /\ pc = "sync"
  /\ LET group_avg == SumSeq(group_returns)
     IN /\ buffer' = IF SyncCondition(group_avg)
                       THEN GroupBufferAdd(buffer, group_avg) ELSE buffer
        /\ n_adds' = IF SyncCondition(group_avg) THEN n_adds + 1 ELSE n_adds
        /\ counts' = [counts EXCEPT !.epoch.adds =
                        IF SyncCondition(group_avg) THEN @ + 1 ELSE @]
        /\ ref_sd' = IF SyncCondition(group_avg) THEN epoch ELSE ref_sd
        /\ accepted_w' = IF SyncCondition(group_avg) THEN policy_w ELSE accepted_w
  /\ epoch' = epoch + 1
  /\ pc' = "epoch_start"
  /\ UNCHANGED << batch_size, data_size, step, upd, gen_b, gen_i, dataset_iter,
                  batch, restarts, grad_enabled, grad_saved, policy_w, adam_m,
                  ref_w, prev_ref_w, pending, text_gens, group_returns,
                  input_batches, advantages, ratio, surr, fwd_log, saves >>

\* lines 147-150: group average, buffer add, conditional rebinding of ref_sd
Sync ==
  /\ pc = "sync"
  /\ LET group_avg == SumSeq(group_returns)
     IN /\ buffer' = GroupBufferAdd(buffer, group_avg)
        /\ ref_sd' = IF SyncCondition(group_avg) THEN epoch ELSE ref_sd
        /\ accepted_w' = IF SyncCondition(group_avg) THEN policy_w ELSE accepted_w
  /\ n_adds' = n_adds + 1
  /\ counts' = [counts EXCEPT !.epoch.adds = @ + 1]
  /\ epoch' = epoch + 1
  /\ pc' = "epoch_start"
  /\ UNCHANGED << batch_size, data_size, step, upd, gen_b, gen_i, dataset_iter,
                  batch, restarts, grad_enabled, grad_saved, policy_w, adam_m,
                  ref_w, prev_ref_w, pending, text_gens, group_returns,
                  input_batches, advantages, ratio, surr, fwd_log, saves >>

\* lines 152-153: the epoch loop is over, the adapter is saved
SavePretrained ==
  /\ pc = "epoch_start"
  /\ ~EpochLoopContinues(epoch)
  /\ saves' = saves + 1
  /\ pc' = "done"
  /\ UNCHANGED << batch_size, data_size, epoch, step, upd, gen_b, gen_i,
                  dataset_iter, batch, restarts, grad_enabled, grad_saved,
                  policy_w, adam_m, ref_w, ref_sd, accepted_w, prev_ref_w,
                  pending, text_gens, group_returns, input_batches, advantages,
                  ratio, surr, buffer, n_adds, counts, fwd_log >>

Next ==
  \/ EpochStart
  \/ DrawBatch
  \/ CollectForward
  \/ GenerateCall
  \/ GenerateStep
  \/ GenerateReturn
  \/ Record
  \/ Advantage
  \/ UpdateForward
  \/ OptimizerStep
  \/ Sync
  \/ SavePretrained

\* train_grpo_llama as written (batch_size = 1)
Spec == Init /\ [][Next]_vars

\* the single thread of control always takes its next step
FairSpec == Spec /\ WF_vars(Next)

\* train_grpo_llama with batch_size as a parameter
InitGen ==
  /\ batch_size \in 1..MaxBatch
  /\ pc = "epoch_start"
  /\ InitCommon

SpecGen == InitGen /\ [][Next]_vars

\* ------------------------------------------------- stand-alone buffer driver
\* scores handed to GroupBuffer.add by the driver
DriverScores == {-1, 0, 2}

BufInit ==
  /\ batch_size = batch_size_train
  /\ pc = "buffer_driver"
  /\ InitCommon

\* one call of GroupBuffer.add on its own
BufferDriverAdd ==
  /\ pc = "buffer_driver"
  /\ n_adds < MaxAdds
  /\ \E score \in DriverScores : buffer' = GroupBufferAdd(buffer, score)
  /\ n_adds' = n_adds + 1
  /\ UNCHANGED << batch_size, data_size, pc, epoch, step, upd, gen_b, gen_i,
                  dataset_iter, batch, restarts, grad_enabled, grad_saved,
                  policy_w, adam_m, ref_w, ref_sd, accepted_w, prev_ref_w,
                  pending, text_gens, group_returns, input_batches, advantages,
                  ratio, surr, counts, fwd_log, saves >>

\* the training loop, and the buffer exercised past its capacity
SpecBuf == (Init \/ BufInit) /\ [][Next \/ BufferDriverAdd]_vars

\* ------------------------------------------------------------------ phases
Phase ==
  CASE pc = "epoch_start" -> "BOUNDARY"
    [] pc \in {"draw", "forward", "gen_call", "generate", "record"} -> "COLLECT"
    [] pc = "advantage" -> "ADVANTAGE"
    [] pc \in {"update", "opt"} -> "UPDATE"
    [] pc = "sync" -> "SYNC"
    [] OTHER -> "END"

\* the group average of the epoch that ended last
LastGroupAvg == buffer[Len(buffer)]

EpochCounts(r, a, o, d) ==
  counts.epoch = [rollouts |-> r, adv_calls |-> a, opt_steps |-> o, adds |-> d]

\* ------------------------------------------------------------------ claims

\* C1: the weights the reference model loads at the start of epoch k+1 are the
\* policy weights of the end of epoch k when epoch k's mean group return was
\* strictly positive, and are the weights it held during epoch k otherwise.
C1_SyncIffPositive ==
  (pc = "draw" /\ step = 0 /\ epoch >= 1) =>
     /\ LastGroupAvg > 0 => ref_w = policy_w
     /\ LastGroupAvg <= 0 => ref_w = prev_ref_w

\* C2: during every epoch the reference model holds the last accepted
\* snapshot, the policy weights as they were when ref_sd was last bound; after
\* an epoch without a strictly positive mean return it holds what it held in
\* that epoch.
C2_RefIsLastAccepted ==
  Phase \in {"COLLECT", "ADVANTAGE", "UPDATE", "SYNC"} =>
     /\ ref_w = accepted_w
     /\ (epoch >= 1 /\ ref_sd < epoch - 1) => ref_w = prev_ref_w

\* C3: per epoch the phases follow COLLECT, ADVANTAGE, UPDATE, SYNC with
\* steps_per_group rollouts, one advantage call, steps_per_group optimizer
\* steps and one buffer add; every rollout is consumed by exactly one update
\* step of its own epoch and none survives into the next collection.
C3_Counts ==
  /\ Phase = "COLLECT" =>
       /\ EpochCounts(step, 0, 0, 0)
       /\ step < steps_per_group
       /\ Len(input_batches) = step
       /\ \A i \in DOMAIN input_batches : input_batches[i].used = 0
  /\ Phase = "ADVANTAGE" =>
       /\ EpochCounts(steps_per_group, 0, 0, 0)
       /\ Len(input_batches) = steps_per_group
  /\ Phase = "UPDATE" =>
       /\ EpochCounts(steps_per_group, 1, upd, 0)
       /\ Len(input_batches) = steps_per_group
       /\ upd < steps_per_group
       /\ \A i \in DOMAIN input_batches :
            input_batches[i].used =
              IF i <= upd \/ (i = upd + 1 /\ pc = "opt") THEN 1 ELSE 0
  /\ Phase = "SYNC" =>
       /\ EpochCounts(steps_per_group, 1, steps_per_group, 0)
       /\ \A i \in DOMAIN input_batches : input_batches[i].used = 1
  /\ (Phase \in {"BOUNDARY", "END"} /\ epoch >= 1) =>
       /\ EpochCounts(steps_per_group, 1, steps_per_group, 1)
       /\ Len(input_batches) = steps_per_group
       /\ \A i \in DOMAIN input_batches : input_batches[i].used = 1

C3_PhaseOrder ==
  \/ Phase' = Phase
  \/ << Phase, Phase' >> \in
       { << "BOUNDARY", "COLLECT" >>, << "COLLECT", "ADVANTAGE" >>,
         << "ADVANTAGE", "UPDATE" >>, << "UPDATE", "SYNC" >>,
         << "SYNC", "BOUNDARY" >>, << "BOUNDARY", "END" >> }

\* C3: the per-phase counts hold in every state and the phases only advance
\* in the order COLLECT, ADVANTAGE, UPDATE, SYNC.
C3_EpochShape == [](C3_Counts) /\ [][C3_PhaseOrder]_vars

C3_Witness ==
  /\ pc = "epoch_start" /\ epoch = 2
  /\ EpochCounts(steps_per_group, 1, steps_per_group, 1)

C5_AtEnd ==
  /\ pc = "done" =>
       /\ epoch = epochs
       /\ saves = 1
       /\ n_adds = epochs
       /\ counts.collect = epochs * steps_per_group
       /\ counts.gen = epochs * steps_per_group * batch_size * max_new_tokens
       /\ counts.update = epochs * steps_per_group
  /\ saves > 0 => pc = "done"

\* C5: the loop reaches its end, and the end state is as described above.
C5_Terminates == <>(pc = "done") /\ [](C5_AtEnd)

C5_Witness == pc = "done" /\ saves = 1 /\ epoch = epochs

\* C6: after N calls of add the buffer holds min(N, max_size) snapshots, never
\* more than max_size; the training loop calls add once per epoch.
C6_BufferBounded ==
  /\ Len(buffer) = Min(n_adds, max_size)
  /\ Len(buffer) <= max_size
  /\ pc /= "buffer_driver" => n_adds = epoch

C6_Witness == n_adds > max_size /\ Len(buffer) = max_size

\* C7: the reference weights change only at an epoch boundary, never during
\* COLLECT or UPDATE, and every rollout of the group carries reference logits
\* of the weights the reference model holds throughout the epoch.
C7_RefChange == ref_w' /= ref_w => (Phase = "BOUNDARY" /\ Phase' = "COLLECT")

C7_SameRef == \A i \in DOMAIN input_batches : input_batches[i].ref_w = ref_w

\* C7: all rollouts of a group share the reference weights, which change
\* only between epochs.
C7_RefFixedInGroup == [](C7_SameRef) /\ [][C7_RefChange]_vars

C7_Witness ==
  /\ pc = "update" /\ epoch >= 1
  /\ Len(input_batches) = steps_per_group
  /\ prev_ref_w >= 0 /\ ref_w /= prev_ref_w

\* C8: every forward call of COLLECT (reference, policy, and those inside
\* generate_text) runs with gradients disabled, every forward call of UPDATE
\* with gradients enabled.
C8_GradToggle ==
  \A c \in fwd_log :
     /\ c.phase \in {"collect", "generate"} => ~c.grad
     /\ c.phase = "update" => c.grad

C8_Witness ==
  /\ Cardinality(fwd_log) = 4
  /\ \E c \in fwd_log : c.phase = "update"
  /\ \E c \in fwd_log : c.phase = "generate"

\* C9: for an advantage A > 0 and a ratio above 1 + epsilon the surrogate
\* term is (1 + epsilon) * A, strictly below ratio * A.
C9_ClippedHigh ==
  (pc = "opt" /\ advantages[upd + 1] > 0 /\ ratio > 10 + epsilon) =>
     /\ surr = (10 + epsilon) * advantages[upd + 1]
     /\ surr < ratio * advantages[upd + 1]

C9_Witness ==
  /\ pc = "opt"
  /\ advantages[upd + 1] > 0
  /\ ratio = MaxRatio

\* C10: the policy weights do not change during COLLECT, so every rollout of
\* the group is sampled under the same weights; update step i sees a policy
\* that received exactly i optimizer steps since collection, update step 0
\* the very weights that produced log_prob_old.
C10_PolicyFixedInCollect ==
  /\ Phase = "COLLECT" =>
       /\ counts.epoch.opt_steps = 0
       /\ \A i \in DOMAIN input_batches : input_batches[i].pol_w = policy_w
       /\ pc \in {"gen_call", "generate", "record"} => pending.pol_w = policy_w
  /\ Phase = "UPDATE" =>
       /\ counts.epoch.opt_steps = upd
       /\ \A i, j \in DOMAIN input_batches :
            input_batches[i].pol_w = input_batches[j].pol_w
       /\ (pc = "update" /\ upd = 0) => policy_w = input_batches[1].pol_w

C10_Witness ==
  /\ pc = "update" /\ upd = 2
  /\ policy_w /= input_batches[1].pol_w

====
